---------------------------- MODULE Spec2Model ----------------------------
(***************************************************************************)
(* Model of snow's logging facade (include/base_log.h): the record builder *)
(* LogMessage, the lifecycle manager Logger, and the logging macros.       *)
(*                                                                         *)
(* base_log.h sits on spdlog.  The spdlog calls the facade makes are       *)
(* modelled by what spdlog does at them: logger::log admits a record by    *)
(* level, routes it to each sink and flushes at the flush level;           *)
(* register_logger throws spdlog_ex when the name is already registered;   *)
(* drop_all empties the registry and resets the default logger; a *_mt     *)
(* sink serialises its writers with a mutex, a *_st sink does not; the     *)
(* console sink flushes on every write, the file sink buffers until it is  *)
(* flushed or closed; std::abort does not flush buffered files.            *)
(***************************************************************************)
EXTENDS Integers, Sequences, FiniteSets, TLC

(***************************************************************************)
(* Bounds of the model.                                                    *)
(***************************************************************************)
MaxLines == 1          \* lines the console is given in one behaviour (Spec)
NThreads == 2          \* worker threads (SpecMT, SpecJoined)
RecordsPerThread == 1  \* records each worker thread logs (SpecMT, SpecJoined)
MaxWrites == 4         \* lines a rotating file sink is given (SpecRotate)
MaxTime == 2           \* ticks of the system clock in one behaviour (SpecStatement)
MaxAppends == 2        \* operator<< calls chained in one log statement (SpecStatement)

(***************************************************************************)
(* enum LogSeverity                                                        *)
(***************************************************************************)
LOG_LEVEL_INFO == 0
LOG_LEVEL_WARNING == 1
LOG_LEVEL_ERROR == 2
LOG_LEVEL_FATAL == 3
LogSeverity == {LOG_LEVEL_INFO, LOG_LEVEL_WARNING, LOG_LEVEL_ERROR, LOG_LEVEL_FATAL}

\* std::shared_ptr<spdlog::logger> LogMessage::logger_ = nullptr
nullptr == 0

\* spdlog::level::level_enum in its order; a level's rank is its position.
level_enum == <<"trace", "debug", "info", "warn", "err", "critical", "off">>
Rank(l) == CHOOSE i \in 1..Len(level_enum) : level_enum[i] = l

\* the level arguments Init and SetLevel are called with
LevelArgs == {"info", "err"}

\* the levels that stand for a severity
SeverityLevels == {"info", "warn", "err", "critical"}

\* the log_file arguments of Init: none, a path that opens, a path that does not
PathArgs == {"", "app.log", "/nodir/app.log"}
CanOpen(path) == path = "app.log"

\* the texts a call site appends with operator<< (a text is a sequence of characters)
Texts == {<<>>, <<"a">>}

\* The addresses logger objects live at.  At most four are alive at a time:
\* the one logger_ owns, one the registry still owns, the one Init is
\* building, and one that other code registered.  An address is used again
\* once its object is destroyed.
Slots == {1, 2, 3, 4}

\* the logger spdlog's registry creates as its initial default logger
BuiltinLogger == 1

VARIABLES
    logger_,       \* LogMessage::logger_: nullptr or the address of a logger object
    heap,          \* the logger object at each address (NoObject when none)
    spd_loggers,   \* spdlog registry: the registered loggers, a set of [name, id]
    spd_default,   \* spdlog registry: the default logger (nullptr or an address)
    console,       \* what standard output was given, a sequence of chunks
    disk,          \* what of the log file is on disk, a sequence of chunks
    proc,          \* "running", "aborted" (std::abort), "terminated" (uncaught
                   \* exception), "crashed" (undefined behaviour took the process down)
    thr,           \* the worker threads: where each is in its log call
    last,          \* history: the last call made on the facade and how it ended
    hist,          \* history: what the calls so far amount to
    file_sink,     \* a rotating file sink taken on its own: its files and its writes
    rendered,      \* a line LogMessage::Flush rendered, with what it was rendered from
    now,           \* std::chrono::system_clock: microseconds into the current second
    temp           \* the LogMessage temporary of a log statement taken step by step

vars == <<logger_, heap, spd_loggers, spd_default, console, disk, proc, thr, last, hist,
          file_sink, rendered, now, temp>>

\* the variables of the facade and of spdlog's registry
facade == <<logger_, heap, spd_loggers, spd_default, console, disk, proc, thr, last, hist>>

(***************************************************************************)
(* LogMessage::Flush, the switch on severity_.                             *)
(***************************************************************************)
level_char(severity) ==
    CASE severity = LOG_LEVEL_INFO -> "I"
      [] severity = LOG_LEVEL_WARNING -> "W"
      [] severity = LOG_LEVEL_ERROR -> "E"
      [] severity = LOG_LEVEL_FATAL -> "F"
      [] OTHER -> "?"

\* the switch with the levels of WARNING and ERROR exchanged
spdlog_level_swapped(severity) ==
    CASE severity = LOG_LEVEL_INFO -> "info"
      [] severity = LOG_LEVEL_WARNING -> "err"
      [] severity = LOG_LEVEL_ERROR -> "warn"
      [] severity = LOG_LEVEL_FATAL -> "critical"
      [] OTHER -> "info"

spdlog_level(severity) ==
    CASE severity = LOG_LEVEL_INFO -> "info"
      [] severity = LOG_LEVEL_WARNING -> "warn"
      [] severity = LOG_LEVEL_ERROR -> "err"
      [] severity = LOG_LEVEL_FATAL -> "critical"
      [] OTHER -> "info"

\* formatted_msg, as far as the model tells lines apart: the level character,
\* the thread and the message
FormattedMsg(severity, thread, text) ==
    [level_char |-> level_char(severity), thread |-> thread, msg |-> text]

(***************************************************************************)
(* A logger object: make_shared<spdlog::logger>("snow_logger", sinks).     *)
(* A sink writes a line as two chunks, its text and its end of line.  The  *)
(* console sink writes to standard output and flushes at once; the file    *)
(* sink writes to buf, its stdio buffer, which a flush or the closing of   *)
(* the file moves to disk.  mutex[s] is the thread inside sink s, 0 when   *)
(* none is.                                                                *)
(***************************************************************************)
SinkKinds == {"console", "file"}

NoObject ==
    [name |-> "", level |-> "off", flush_level |-> "off", sinks |-> <<>>,
     buf |-> <<>>, mutex |-> [s \in SinkKinds |-> 0], alive |-> FALSE]

NewLogger(name, sinks) ==
    [name |-> name, level |-> "info", flush_level |-> "off", sinks |-> sinks,
     buf |-> <<>>, mutex |-> [s \in SinkKinds |-> 0], alive |-> TRUE]

Chunks(line) == <<[ln |-> line, part |-> "text"], [ln |-> line, part |-> "eol"]>>

\* The memory and the outputs the logging calls act on.
World == [heap |-> heap, console |-> console, disk |-> disk]

\* a logger that never flushes on its own
should_flush_never(lg, lvl) == FALSE

\* logger::should_log and logger::should_flush_
should_log(lg, lvl) == Rank(lvl) >= Rank(lg.level)
should_flush(lg, lvl) == Rank(lvl) >= Rank(lg.flush_level) /\ lvl # "off"

\* sink->flush() of every sink of logger g: the file sink's buffer goes to disk
flush_(w, g) ==
    [w EXCEPT !.disk = @ \o w.heap[g].buf, !.heap[g].buf = <<>>]

\* a sink that puts what it is given in front of what it holds
sink_write_front(w, g, s, chunks) ==
    IF s = "console" THEN [w EXCEPT !.console = chunks \o @]
    ELSE [w EXCEPT !.heap[g].buf = chunks \o @]

\* one write of sink s of logger g
sink_write(w, g, s, chunks) ==
    IF s = "console" THEN [w EXCEPT !.console = @ \o chunks]
    ELSE [w EXCEPT !.heap[g].buf = @ \o chunks]

\* sink->log(msg) with the sink's mutex held: the whole line
sink_log(w, g, s, line) == sink_write(w, g, s, Chunks(line))

\* logger::sink_it_: each sink in the order of the sink list
RECURSIVE sink_it(_, _, _, _)
sink_it(w, g, i, line) ==
    IF i > Len(w.heap[g].sinks) THEN w
    ELSE sink_it(sink_log(w, g, w.heap[g].sinks[i], line), g, i + 1, line)

\* logger::log(level, msg) on logger g
logger_log(w, g, lvl, line) ==
    IF ~should_log(w.heap[g], lvl) THEN w
    ELSE LET w2 == sink_it(w, g, 1, line)
         IN IF should_flush(w.heap[g], lvl) THEN flush_(w2, g) ELSE w2

\* the destructor of logger g closes its file sink (fclose writes the buffer out)
Destroy(w, g) == [flush_(w, g) EXCEPT !.heap[g] = NoObject]

\* the objects some shared_ptr owns
Owned(lp, reg, dflt) == ({lp, dflt} \cup {e.id : e \in reg}) \ {nullptr}

\* the objects of gs are destroyed
RECURSIVE DestroyAll(_, _)
DestroyAll(w, gs) ==
    IF gs = {} THEN w
    ELSE LET g == CHOOSE x \in gs : \A y \in gs : x <= y
         IN DestroyAll(Destroy(w, g), gs \ {g})

\* the objects alive in w that nothing in ow owns are destroyed
Release(w, ow) == DestroyAll(w, {g \in Slots : w.heap[g].alive /\ g \notin ow})

\* make_shared<spdlog::logger>: a free address
Alloc(w) == CHOOSE g \in Slots : ~w.heap[g].alive /\ \A x \in Slots : ~w.heap[x].alive => g <= x

\* no rotating file sink has been constructed
NoFileSink ==
    [open |-> FALSE, max_size |-> 0, max_files |-> 0, files |-> <<>>,
     n |-> 0, len |-> 0, rotated |-> FALSE, removed |-> FALSE]

\* no log statement has been run step by step: no LogMessage temporary.  Of
\* a temporary, created and appended are the clock readings at its
\* construction and at its last operator<<; of a destroyed one, formatted says
\* whether Flush built a line, time is the clock reading Flush took, out the line
NoTemp ==
    [pc |-> "none", severity_ |-> LOG_LEVEL_INFO, message_ |-> <<>>,
     created |-> 0, appended |-> 0, formatted |-> FALSE, time |-> 0, out |-> <<>>]

\* no line has been rendered
NoLine ==
    [file |-> <<>>, line |-> 0, severity |-> LOG_LEVEL_INFO, text |-> <<>>,
     filename |-> <<>>, out |-> <<>>]

(***************************************************************************)
(* The state after static initialization: no facade logger; spdlog's       *)
(* registry holds its initial default logger under the empty name.         *)
(***************************************************************************)
Workers == 1..NThreads

NoCall == [op |-> "none", sev |-> LOG_LEVEL_INFO, text |-> <<>>, threw |-> FALSE]

Idle == [pc |-> "idle", k |-> 0, p |-> nullptr, i |-> 0]

Init ==
    /\ logger_ = nullptr
    /\ heap = [g \in Slots |-> IF g = BuiltinLogger THEN NewLogger("", <<"console">>)
                               ELSE NoObject]
    /\ spd_loggers = {[name |-> "", id |-> BuiltinLogger]}
    /\ spd_default = BuiltinLogger
    /\ console = <<>>
    /\ disk = <<>>
    /\ proc = "running"
    /\ thr = [t \in Workers |-> Idle]
    /\ last = NoCall
    /\ hist = [setL |-> "", lifeRace |-> FALSE, stale |-> FALSE]
    /\ file_sink = NoFileSink
    /\ rendered = NoLine
    /\ now = 0
    /\ temp = NoTemp

Running == proc = "running"

\* the console has been given at most MaxLines lines (every line a logger
\* routes goes to its console sink first)
Room(w) == Len(w.console) <= 2 * MaxLines

\* the world after a call is what the variables become
Becomes(w) == heap' = w.heap /\ console' = w.console /\ disk' = w.disk

\* some worker thread has started logging
WorkersStarted == \E t \in Workers : thr[t] # Idle

\* the raw pointers worker threads hold, once the objects of heap h that are
\* destroyed are gone: a thread inside logger::log of a destroyed logger holds
\* a dangling pointer
Dangling(th, h) ==
    [t \in Workers |->
        IF th[t].p # nullptr /\ ~h[th[t].p].alive
        THEN [th[t] EXCEPT !.pc = "dangling"] ELSE th[t]]

\* history of a lifecycle call
Lifecycle ==
    [hist EXCEPT !.setL = "", !.lifeRace = hist.lifeRace \/ WorkersStarted]

(***************************************************************************)
(* LogMessage: LOG_x << text, the full expression: construction, the       *)
(* append, and the destructor at its end.                                  *)
(***************************************************************************)
\* a Flush that falls back on spdlog's default logger when logger_ is null
LogMessage_FlushFallback(w, lp, severity, thread, text) ==
    LET q == IF lp = nullptr THEN spd_default ELSE lp
    IN  IF q = nullptr THEN w
        ELSE logger_log(w, q, spdlog_level(severity), FormattedMsg(severity, thread, text))

\* LogMessage::Flush: the record is passed to logger_
LogMessage_Flush(w, lp, severity, thread, text) ==
    IF lp = nullptr THEN w
    ELSE logger_log(w, lp, spdlog_level(severity), FormattedMsg(severity, thread, text))

\* a destructor that calls Flush whatever the buffer holds
FinalizeAlways(w, lp, severity, thread, text) ==
    LogMessage_Flush(w, lp, severity, thread, text)

\* ~LogMessage: Flush when the buffer is not empty
Finalize(w, lp, severity, thread, text) ==
    IF text # <<>> THEN LogMessage_Flush(w, lp, severity, thread, text)
    ELSE w

\* a destructor that returns after a FATAL record
AfterFinalizeNoAbort(severity) == "running"

\* ~LogMessage: std::abort() when the severity is FATAL
AfterFinalize(severity) ==
    IF severity = LOG_LEVEL_FATAL THEN "aborted" ELSE "running"

Log(severity, text) ==
    /\ Running
    /\ UNCHANGED <<file_sink, rendered, now, temp>>
    /\ LET w == Finalize(World, logger_, severity, 0, text)
       IN  Room(w) /\ Becomes(w)
    /\ proc' = AfterFinalize(severity)
    /\ last' = [NoCall EXCEPT !.op = "Log", !.sev = severity, !.text = text]
    /\ UNCHANGED <<logger_, spd_loggers, spd_default, thr, hist>>

(***************************************************************************)
(* LOG_x_IF(condition) << text:                                            *)
(*     !(condition) ? (void)0 : snow::LogMessage(severity, file, line)     *)
(* The second operand of ?: has type void, the third has type LogMessage   *)
(* (LogMessage& once << is applied, which binds tighter than ?:).  C++     *)
(* accepts a void operand only beside another void operand or a throw, so  *)
(* a statement that uses the form is ill-formed: the compiler rejects it   *)
(* and nothing runs for it.                                                *)
(***************************************************************************)
CondOperandTypes == <<"void", "LogMessage">>

WellFormedConditional(types) == (types[1] = "void") <=> (types[2] = "void")

LogIf(condition, severity, text) ==
    /\ Running
    /\ UNCHANGED <<file_sink, rendered, now, temp>>
    /\ IF ~WellFormedConditional(CondOperandTypes)
       THEN UNCHANGED <<heap, console, disk, proc>>
       ELSE IF ~condition
            THEN UNCHANGED <<heap, console, disk, proc>>
            ELSE /\ LET w == Finalize(World, logger_, severity, 0, text)
                    IN  Room(w) /\ Becomes(w)
                 /\ proc' = AfterFinalize(severity)
    /\ last' = [NoCall EXCEPT !.op = "LogIf"]
    /\ UNCHANGED <<logger_, spd_loggers, spd_default, thr, hist>>

(***************************************************************************)
(* Logger::SetLevel, Logger::Flush, Logger::Shutdown                       *)
(***************************************************************************)
\* a SetLevel that sets the level of spdlog's default logger when logger_ is null
SetLevelOrDefault(h, lp, level) ==
    IF lp # nullptr THEN [h EXCEPT ![lp].level = level]
    ELSE IF spd_default # nullptr THEN [h EXCEPT ![spd_default].level = level]
    ELSE h

SetLevelOf(h, lp, level) ==
    IF lp # nullptr THEN [h EXCEPT ![lp].level = level] ELSE h

SetLevel(level) ==
    /\ Running
    /\ UNCHANGED <<file_sink, rendered, now, temp>>
    /\ heap' = SetLevelOf(heap, logger_, level)
    /\ last' = [NoCall EXCEPT !.op = "SetLevel"]
    /\ hist' = [hist EXCEPT !.setL = IF logger_ # nullptr THEN level ELSE @]
    /\ UNCHANGED <<logger_, spd_loggers, spd_default, console, disk, proc, thr>>

Flush ==
    /\ Running
    /\ UNCHANGED <<file_sink, rendered, now, temp>>
    /\ Becomes(IF logger_ # nullptr THEN flush_(World, logger_) ELSE World)
    /\ last' = [NoCall EXCEPT !.op = "Flush"]
    /\ UNCHANGED <<logger_, spd_loggers, spd_default, proc, thr, hist>>

\* a Shutdown that leaves logger_ as it was
ShutdownKeepsPtr(lp) == lp

\* LogMessage::logger_.reset()
ShutdownPtr(lp) == nullptr

Shutdown ==
    /\ Running
    /\ UNCHANGED <<file_sink, rendered, now, temp>>
    /\ IF logger_ # nullptr
       THEN LET flushed == flush_(World, logger_)                  \* logger_->flush()
                dropped == Release(flushed, Owned(logger_, {}, nullptr))
                                                                   \* spdlog::drop_all()
                lp2 == ShutdownPtr(logger_)                        \* logger_.reset()
            IN  /\ spd_loggers' = {}
                /\ spd_default' = nullptr
                /\ logger_' = lp2
                /\ Becomes(Release(dropped, Owned(lp2, {}, nullptr)))
       ELSE UNCHANGED <<logger_, heap, spd_loggers, spd_default, console, disk>>
    /\ last' = [NoCall EXCEPT !.op = "Shutdown"]
    /\ hist' = Lifecycle
    /\ thr' = Dangling(thr, heap')
    /\ UNCHANGED proc

(***************************************************************************)
(* Logger::Init(log_file, max_file_size, max_files, level)                 *)
(***************************************************************************)
\* how a call that cannot go on ends: an exception the caller catches or not;
\* undefined behaviour that takes the process down or passes unnoticed
Fates == {"return", "die"}

\* a sink list with the file sink before the console sink
InitSinksFileFirst(log_file) ==
    IF log_file # "" /\ CanOpen(log_file) THEN <<"file", "console">> ELSE <<"console">>

\* the sink list Init builds: the console sink, and the file sink when it opens
InitSinks(log_file) ==
    IF log_file # "" /\ CanOpen(log_file) THEN <<"console", "file">> ELSE <<"console">>

\* the catch block calls spdlog::warn, which calls through the default logger
WarnsThroughDefault(log_file) == log_file # "" /\ ~CanOpen(log_file)

WarningLine ==
    [level_char |-> "", thread |-> 0, msg |-> <<"Failed to create log file">>]

\* the catch block: the warning goes to spdlog's default logger
AfterWarn(w, log_file, dflt) ==
    IF WarnsThroughDefault(log_file) /\ dflt # nullptr
    THEN logger_log(w, dflt, "warn", WarningLine)
    ELSE w

\* spdlog::register_logger throws spdlog_ex when the name is registered already
RegisterThrows(reg, name) == \E e \in reg : e.name = name

\* spdlog::set_default_logger: the previous default leaves the map, the new one enters
SetDefaultMap(reg, h, dflt, g) ==
    {e \in reg : dflt = nullptr \/ e.name # h[dflt].name}
        \cup {[name |-> h[g].name, id |-> g]}

\* an Init that leaves its logger at the level a new logger has
set_level_default(level) == "info"

\* logger_->set_level(level): the level the new logger is given
set_level(level) == level

\* Init does not run to its end: the warning has no default logger to go
\* through, or register_logger throws
InitCanFail(log_file) ==
    \/ WarnsThroughDefault(log_file) /\ spd_default = nullptr
    \/ RegisterThrows(spd_loggers, "snow_logger")

LoggerInit(log_file, level, fate) ==
    /\ Running
    /\ UNCHANGED <<file_sink, rendered, now, temp>>
    /\ fate = "die" => InitCanFail(log_file)
    /\ WarnsThroughDefault(log_file) => Room(AfterWarn(World, log_file, spd_default))
    /\ hist' = Lifecycle
    /\ IF WarnsThroughDefault(log_file) /\ spd_default = nullptr /\ fate = "die"
       THEN \* default_logger_raw()->warn(...) on a null pointer
            /\ proc' = "crashed"
            /\ last' = [NoCall EXCEPT !.op = "Init"]
            /\ UNCHANGED <<logger_, heap, spd_loggers, spd_default, console, disk>>
       ELSE LET warned == AfterWarn(World, log_file, spd_default)
                g == Alloc(warned)
                fresh == [NewLogger("snow_logger", InitSinks(log_file))
                             EXCEPT !.level = set_level(level),
                                    !.flush_level = "warn"]    \* flush_on(warn)
                made == [warned EXCEPT !.heap[g] = fresh]
                \* logger_ = make_shared<...>: the logger it owned is released
                assigned == Release(made, Owned(g, spd_loggers, spd_default))
                throws == RegisterThrows(spd_loggers, "snow_logger")
                reg2 == IF throws THEN spd_loggers
                        ELSE SetDefaultMap(spd_loggers \cup {[name |-> "snow_logger", id |-> g]},
                                           made.heap, spd_default, g)
                dflt2 == IF throws THEN spd_default ELSE g
            IN  /\ logger_' = g
                /\ spd_loggers' = reg2
                /\ spd_default' = dflt2
                /\ Becomes(Release(assigned, Owned(g, reg2, dflt2)))
                /\ proc' = IF throws /\ fate = "die" THEN "terminated" ELSE "running"
                /\ last' = [NoCall EXCEPT !.op = "Init", !.threw = throws]
    /\ thr' = Dangling(thr, heap')

(***************************************************************************)
(* The sequential program: one thread calls the facade.                    *)
(***************************************************************************)
Next ==
    \/ \E f \in PathArgs, l \in LevelArgs, x \in Fates : LoggerInit(f, l, x)
    \/ \E l \in LevelArgs : SetLevel(l)
    \/ Flush
    \/ Shutdown
    \/ \E s \in LogSeverity, t \in Texts : Log(s, t)
    \/ \E c \in BOOLEAN, s \in LogSeverity, t \in Texts \ {<<>>} : LogIf(c, s, t)

Spec == Init /\ [][Next]_vars

(***************************************************************************)
(* The sequential program with every severity as a minimum level: one log  *)
(* file, Init at its default level, SetLevel over the severities.          *)
(***************************************************************************)
NextLevels ==
    \/ \E x \in Fates : LoggerInit("app.log", "info", x)
    \/ \E l \in SeverityLevels : SetLevel(l)
    \/ Shutdown
    \/ \E s \in LogSeverity, t \in Texts : Log(s, t)

SpecLevels == Init /\ [][NextLevels]_vars

(***************************************************************************)
(* The sequential program with Init and SetLevel over the same levels:     *)
(* one log file, every call that sets or tests the minimum level.          *)
(***************************************************************************)
NextMinimum ==
    \/ \E l \in LevelArgs, x \in Fates : LoggerInit("app.log", l, x)
    \/ \E l \in LevelArgs : SetLevel(l)
    \/ Shutdown
    \/ \E s \in LogSeverity, t \in Texts : Log(s, t)

SpecMinimum == Init /\ [][NextMinimum]_vars

(***************************************************************************)
(* Worker threads.  Each logs RecordsPerThread records LOG_INFO << text    *)
(* while the main thread makes the lifecycle calls.  A log call is a       *)
(* sequence of steps other threads run between:                            *)
(*   - ~LogMessage and Flush up to its test of logger_;                    *)
(*   - logger_->log(...): logger_ is read again, without a copy of the     *)
(*     shared_ptr, and logger::log runs on the object it points to;        *)
(*   - in each sink, under the sink's mutex when the sink is an _mt sink,  *)
(*     the text of the line is written and then its end of line.           *)
(***************************************************************************)
\* the sinks with no mutex: stdout_color_sink_st, rotating_file_sink_st
SinksAreST == FALSE

\* Init builds stdout_color_sink_mt and rotating_file_sink_mt
SinksAreMT == TRUE

\* the text of the k-th record a thread logs
WorkerText(k) == <<k>>

\* the line of the record thread t is logging
WorkerLine(t) == FormattedMsg(LOG_LEVEL_INFO, t, WorkerText(thr[t].k + 1))

\* thread t has finished the record it was logging
RecordDone(th) == [Idle EXCEPT !.k = th.k + 1]

\* ~LogMessage: the buffer is not empty, Flush; if (!logger_) return.
\* The thread logs records records in all.
WorkerCheckOf(t, records) ==
    /\ Running
    /\ UNCHANGED <<file_sink, rendered, now, temp>>
    /\ thr[t].pc = "idle" /\ thr[t].k < records
    /\ thr' = [thr EXCEPT ![t] = IF logger_ = nullptr THEN RecordDone(@)
                                 ELSE [@ EXCEPT !.pc = "checked"]]
    /\ UNCHANGED <<logger_, heap, spd_loggers, spd_default, console, disk, proc, last, hist>>

WorkerCheck(t) == WorkerCheckOf(t, RecordsPerThread)

\* logger_->log(level, formatted_msg) up to logger::should_log
WorkerCall(t, fate) ==
    /\ Running
    /\ UNCHANGED <<file_sink, rendered, now, temp>>
    /\ thr[t].pc = "checked"
    /\ fate = "die" => logger_ = nullptr
    /\ IF logger_ = nullptr
       THEN \* a call through the null pointer Shutdown left
            /\ hist' = [hist EXCEPT !.stale = TRUE]
            /\ proc' = IF fate = "die" THEN "crashed" ELSE proc
            /\ thr' = [thr EXCEPT ![t] = RecordDone(@)]
       ELSE /\ thr' = [thr EXCEPT ![t] =
                          IF should_log(heap[logger_], spdlog_level(LOG_LEVEL_INFO))
                          THEN [@ EXCEPT !.pc = "sink", !.p = logger_, !.i = 1]
                          ELSE RecordDone(@)]
            /\ UNCHANGED <<hist, proc>>
    /\ UNCHANGED <<logger_, heap, spd_loggers, spd_default, console, disk, last>>

\* sink->log(msg): the sink's mutex is taken and the text of the line written
SinkBegin(t) ==
    /\ Running
    /\ UNCHANGED <<file_sink, rendered, now, temp>>
    /\ thr[t].pc = "sink"
    /\ LET g == thr[t].p
           s == heap[g].sinks[thr[t].i]
           line == WorkerLine(t)
       IN  /\ SinksAreMT => heap[g].mutex[s] = 0
           /\ Becomes(sink_write([World EXCEPT !.heap[g].mutex[s] =
                                                  IF SinksAreMT THEN t ELSE @],
                                 g, s, <<[ln |-> line, part |-> "text"]>>))
    /\ thr' = [thr EXCEPT ![t].pc = "insink"]
    /\ UNCHANGED <<logger_, spd_loggers, spd_default, proc, last, hist>>

\* sink->log(msg): the end of line is written and the mutex released; after
\* the last sink logger::log flushes when should_flush_ says so and returns
SinkEnd(t) ==
    /\ Running
    /\ UNCHANGED <<file_sink, rendered, now, temp>>
    /\ thr[t].pc = "insink"
    /\ LET g == thr[t].p
           s == heap[g].sinks[thr[t].i]
           line == WorkerLine(t)
           lvl == spdlog_level(LOG_LEVEL_INFO)
           written == sink_write([World EXCEPT !.heap[g].mutex[s] = 0],
                                 g, s, <<[ln |-> line, part |-> "eol"]>>)
           lastSink == thr[t].i = Len(heap[g].sinks)
       IN  /\ Becomes(IF lastSink /\ should_flush(heap[g], lvl)
                      THEN flush_(written, g) ELSE written)
           /\ thr' = [thr EXCEPT ![t] = IF lastSink THEN RecordDone(@)
                                        ELSE [@ EXCEPT !.pc = "sink", !.i = @ + 1]]
    /\ UNCHANGED <<logger_, spd_loggers, spd_default, proc, last, hist>>

\* logger::log goes on in a logger that Shutdown has destroyed
WorkerDangling(t, fate) ==
    /\ Running
    /\ UNCHANGED <<file_sink, rendered, now, temp>>
    /\ thr[t].pc = "dangling"
    /\ hist' = [hist EXCEPT !.stale = TRUE]
    /\ proc' = IF fate = "die" THEN "crashed" ELSE proc
    /\ thr' = [thr EXCEPT ![t] = RecordDone(@)]
    /\ UNCHANGED <<logger_, heap, spd_loggers, spd_default, console, disk, last>>

(***************************************************************************)
(* The threaded program: the main thread calls Init (with a log file that  *)
(* opens, at the default level) and Shutdown; the workers log.             *)
(***************************************************************************)
NextMT ==
    \/ \E x \in Fates : LoggerInit("app.log", "info", x)
    \/ Shutdown
    \/ \E t \in Workers : WorkerCheck(t)
    \/ \E t \in Workers, x \in Fates : WorkerCall(t, x)
    \/ \E t \in Workers : SinkBegin(t)
    \/ \E t \in Workers : SinkEnd(t)
    \/ \E t \in Workers, x \in Fates : WorkerDangling(t, x)

SpecMT == Init /\ [][NextMT]_vars

(***************************************************************************)
(* The threaded program of the test: the main thread calls Init, starts    *)
(* the workers, joins them, and calls Shutdown; no lifecycle call runs     *)
(* while a worker is logging.                                              *)
(***************************************************************************)
WorkersJoined == \A t \in Workers : thr[t].pc = "idle" /\ thr[t].k = RecordsPerThread

NextJoined ==
    \/ ~WorkersStarted /\ logger_ = nullptr /\ LoggerInit("app.log", "info", "return")
    \/ (~WorkersStarted \/ WorkersJoined) /\ logger_ # nullptr /\ Shutdown
    \/ \E t \in Workers : WorkerCheck(t)
    \/ \E t \in Workers : WorkerCall(t, "return")
    \/ \E t \in Workers : SinkBegin(t)
    \/ \E t \in Workers : SinkEnd(t)

SpecJoined == Init /\ [][NextJoined]_vars

(***************************************************************************)
(* The same program with a thread that logs one record more than the       *)
(* others, so that a thread logs several records in a row at every bound.  *)
(***************************************************************************)
RecordsOf(t) == IF t = 1 THEN RecordsPerThread + 1 ELSE RecordsPerThread

WorkersReturned == \A t \in Workers : thr[t].pc = "idle" /\ thr[t].k = RecordsOf(t)

WorkerCheckInRow(t) == WorkerCheckOf(t, RecordsOf(t))

NextInRow ==
    \/ ~WorkersStarted /\ logger_ = nullptr /\ LoggerInit("app.log", "info", "return")
    \/ (~WorkersStarted \/ WorkersReturned) /\ logger_ # nullptr /\ Shutdown
    \/ \E t \in Workers : WorkerCheckInRow(t)
    \/ \E t \in Workers : WorkerCall(t, "return")
    \/ \E t \in Workers : SinkBegin(t)
    \/ \E t \in Workers : SinkEnd(t)

SpecInRow == Init /\ [][NextInRow]_vars

(***************************************************************************)
(* The rotating file sink Init constructs, taken on its own:               *)
(*     rotating_file_sink_mt(log_file, max_file_size, max_files)           *)
(* A file is the sequence of its bytes; a byte remembers the line it is of *)
(* and its place in it.  files[1] is the open file, files[i + 1] the       *)
(* backup numbered i.  Before a write that would make the open file exceed *)
(* max_size the sink closes the file, shifts the numbered backups by one,  *)
(* removing what goes beyond max_files, opens a fresh file, and then       *)
(* performs the write.                                                     *)
(***************************************************************************)
\* the max_file_size and max_files arguments, and the lengths of the lines
SizeArgs == {2, 3}
FileCountArgs == {0, 1, 2}
LineLengths == {1, 2, 3}

FileLine(id, len) == [i \in 1..len |-> [id |-> id, pos |-> i, of |-> len]]

\* a rotation that removes no backup
rotate_keeps_all(fs) ==
    [fs EXCEPT !.files = <<<<>>>> \o fs.files,
               !.rotated = TRUE, !.removed = FALSE]

\* the rotation: the open file becomes backup 1, backup i becomes backup
\* i + 1, what would be numbered beyond max_files is removed
rotate_(fs) ==
    [fs EXCEPT !.files = <<<<>>>> \o SubSeq(fs.files, 1,
                                            IF Len(fs.files) <= fs.max_files
                                            THEN Len(fs.files) ELSE fs.max_files),
               !.rotated = TRUE,
               !.removed = Len(fs.files) > fs.max_files]

\* a sink that writes first and rotates once the file has exceeded max_size
file_sink_it_after(fs, line) ==
    LET written == [fs EXCEPT !.files[1] = @ \o line,
                              !.rotated = FALSE, !.removed = FALSE]
    IN  IF Len(written.files[1]) > fs.max_size THEN rotate_(written) ELSE written

\* the write of one line
file_sink_it(fs, line) ==
    LET due == Len(fs.files[1]) + Len(line) > fs.max_size
        opened == IF due THEN rotate_(fs)
                  ELSE [fs EXCEPT !.rotated = FALSE, !.removed = FALSE]
    IN  [opened EXCEPT !.files[1] = @ \o line]

\* the constructor: the sink opens its file
FileSinkOpen(max_file_size, max_files) ==
    /\ ~file_sink.open
    /\ file_sink' = [NoFileSink EXCEPT !.open = TRUE, !.max_size = max_file_size,
                                       !.max_files = max_files, !.files = <<<<>>>>]
    /\ UNCHANGED <<facade, rendered, now, temp>>

\* the sink is given a line of len bytes
FileSinkWrite(len) ==
    /\ file_sink.open
    /\ file_sink.n < MaxWrites
    /\ file_sink' = [file_sink_it(file_sink, FileLine(file_sink.n + 1, len))
                        EXCEPT !.n = @ + 1, !.len = len]
    /\ UNCHANGED <<facade, rendered, now, temp>>

NextRotate ==
    \/ \E b \in SizeArgs, f \in FileCountArgs : FileSinkOpen(b, f)
    \/ \E n \in LineLengths : FileSinkWrite(n)

SpecRotate == Init /\ [][NextRotate]_vars

(***************************************************************************)
(* LogMessage::Flush as a function of its inputs: the line it renders      *)
(* from severity_, file_, line_, message_, the local time and the thread.  *)
(* Strings are sequences of characters.                                    *)
(***************************************************************************)
Digit(d) == <<"0", "1", "2", "3", "4", "5", "6", "7", "8", "9">>[d + 1]

\* operator<< of a non-negative integer, and "%d"
RECURSIVE Decimal(_)
Decimal(n) == IF n < 10 THEN <<Digit(n)>> ELSE Decimal(n \div 10) \o <<Digit(n % 10)>>

RECURSIVE Zeros(_)
Zeros(k) == IF k <= 0 THEN <<>> ELSE <<"0">> \o Zeros(k - 1)

\* a conversion with no minimum width
Unpadded(n, width) == Decimal(n)

\* "%0<width>d": zero-padded to at least width digits
Padded(n, width) == Zeros(width - Len(Decimal(n))) \o Decimal(n)

\* snprintf(time_str, ..., "%04d%02d%02d %02d:%02d:%02d.%06ld", ...)
time_str(tm, usec) ==
    Padded(tm.tm_year + 1900, 4) \o Padded(tm.tm_mon + 1, 2) \o Padded(tm.tm_mday, 2)
        \o <<" ">>
        \o Padded(tm.tm_hour, 2) \o <<":">> \o Padded(tm.tm_min, 2) \o <<":">>
        \o Padded(tm.tm_sec, 2) \o <<".">> \o Padded(usec, 6)

Separators == {"/", "\\"}

\* filename.find_last_of("/\\"): 0 stands for npos
find_last_of(str) ==
    IF \E i \in 1..Len(str) : str[i] \in Separators
    THEN CHOOSE i \in 1..Len(str) :
             /\ str[i] \in Separators
             /\ \A j \in (i + 1)..Len(str) : str[j] \notin Separators
    ELSE 0

\* the file name Flush renders: what follows the last separator
filename(file) ==
    LET pos == find_last_of(file)
    IN  IF pos # 0 THEN SubSeq(file, pos + 1, Len(file)) ELSE file

\* formatted_msg << level_char << time_str << " " << thread_hash << " "
\*               << filename << ":" << line_ << "] " << message_.str()
formatted_msg(severity, file, line, text, tm, usec, thread_hash) ==
    <<level_char(severity)>> \o time_str(tm, usec) \o <<" ">>
        \o Decimal(thread_hash) \o <<" ">>
        \o filename(file) \o <<":">> \o Decimal(line) \o <<"]", " ">>
        \o text

\* the inputs: __FILE__ values and other paths, __LINE__ values, messages,
\* local times (struct tm and microseconds), thread hashes
FileArgs ==
    {<<>>, <<"a">>, <<"d", "/", "a">>, <<"d", "\\", "a">>, <<"d", "/">>,
     <<"d", "/", "e", "\\", "a">>}
LineArgs == {7, 123}
MessageArgs == {<<"a">>, <<"x", ":", " ", "]">>}
TimeArgs ==
    {[tm |-> [tm_year |-> 123, tm_mon |-> 11, tm_mday |-> 24,
              tm_hour |-> 9, tm_min |-> 30, tm_sec |-> 45], usec |-> 123456],
     [tm |-> [tm_year |-> 100, tm_mon |-> 0, tm_mday |-> 1,
              tm_hour |-> 0, tm_min |-> 0, tm_sec |-> 0], usec |-> 0],
     [tm |-> [tm_year |-> 99, tm_mon |-> 8, tm_mday |-> 9,
              tm_hour |-> 23, tm_min |-> 59, tm_sec |-> 59], usec |-> 70]}
ThreadArgs == {0, 12345}

\* Flush renders a line
Render(severity, file, line, text, time, thread_hash) ==
    /\ rendered = NoLine
    /\ rendered' = [file |-> file, line |-> line, severity |-> severity, text |-> text,
                    filename |-> filename(file),
                    out |-> formatted_msg(severity, file, line, text,
                                          time.tm, time.usec, thread_hash)]
    /\ UNCHANGED <<facade, file_sink, now, temp>>

NextRender ==
    \E s \in LogSeverity, f \in FileArgs, n \in LineArgs, t \in MessageArgs,
       c \in TimeArgs, h \in ThreadArgs : Render(s, f, n, t, c, h)

SpecRender == Init /\ [][NextRender]_vars

(***************************************************************************)
(* A log statement step by step: LOG_x << v1 << v2 ...;                    *)
(* The macro constructs a LogMessage temporary, each operator<< appends    *)
(* to message_, and the destructor runs at the end of the full expression. *)
(* The system clock ticks between the steps.                               *)
(***************************************************************************)
\* the values a statement appends: an empty string, a character
AppendArgs == {<<>>, <<"a">>}

\* the source location of the statement: __FILE__ and __LINE__
StatementFile == <<"d", "/", "a">>
StatementLine == 7

\* the local time of the second the clock is in
StatementTm ==
    [tm_year |-> 123, tm_mon |-> 11, tm_mday |-> 24,
     tm_hour |-> 9, tm_min |-> 30, tm_sec |-> 45]

\* the system clock advances
Tick ==
    /\ now < MaxTime
    /\ now' = now + 1
    /\ UNCHANGED <<facade, file_sink, rendered, temp>>

\* LogMessage(severity, file, line): the members are stored, nothing else
LogMessage_Construct(severity) ==
    /\ Running
    /\ temp.pc = "none"
    /\ temp' = [NoTemp EXCEPT !.pc = "built", !.severity_ = severity,
                              !.created = now, !.appended = now]
    /\ UNCHANGED <<facade, file_sink, rendered, now>>

\* operator<<(value): message_ << value
LogMessage_Append(value) ==
    /\ Running
    /\ temp.pc = "built"
    /\ Len(temp.message_) < MaxAppends
    /\ temp' = [temp EXCEPT !.message_ = @ \o value, !.appended = now]
    /\ UNCHANGED <<facade, file_sink, rendered, now>>

\* a clock reading taken when the temporary was constructed
NowAtConstruction(t, clock) == t.created

\* Flush: std::chrono::system_clock::now()
Now(t, clock) == clock

\* Flush goes past its test of logger_ and builds formatted_msg: the time, the
\* thread hash and the line, all before logger_->log decides on the level
Formats(lp, text) == text # <<>> /\ lp # nullptr

\* ~LogMessage: Flush when message_ is not empty, std::abort() when FATAL
LogMessage_Destroy ==
    /\ Running
    /\ temp.pc = "built"
    /\ LET w == Finalize(World, logger_, temp.severity_, 0, temp.message_)
       IN  Room(w) /\ Becomes(w)
    /\ temp' =
           IF Formats(logger_, temp.message_)
           THEN [temp EXCEPT !.pc = "done", !.formatted = TRUE,
                             !.time = Now(temp, now),
                             !.out = formatted_msg(temp.severity_, StatementFile,
                                                   StatementLine, temp.message_,
                                                   StatementTm, Now(temp, now), 0)]
           ELSE [temp EXCEPT !.pc = "done"]
    /\ proc' = AfterFinalize(temp.severity_)
    /\ last' = [NoCall EXCEPT !.op = "Log", !.sev = temp.severity_, !.text = temp.message_]
    /\ UNCHANGED <<logger_, spd_loggers, spd_default, thr, hist, file_sink, rendered, now>>

\* one statement, reached by any lifecycle calls
NextStatement ==
    \/ temp.pc = "none" /\ \E l \in LevelArgs, x \in Fates : LoggerInit("app.log", l, x)
    \/ temp.pc = "none" /\ Shutdown
    \/ Tick
    \/ \E s \in LogSeverity : LogMessage_Construct(s)
    \/ \E v \in AppendArgs : LogMessage_Append(v)
    \/ LogMessage_Destroy

SpecStatement == Init /\ [][NextStatement]_vars

(***************************************************************************)
(* Other code of the process uses spdlog's registry too: it registers a    *)
(* logger of its own under its own name and leaves it to the registry.     *)
(***************************************************************************)
OtherName == "other"

\* spdlog::register_logger(std::make_shared<spdlog::logger>("other", sink))
RegisterOther ==
    /\ Running
    /\ ~RegisterThrows(spd_loggers, OtherName)
    /\ LET g == Alloc(World)
       IN  /\ heap' = [heap EXCEPT ![g] = NewLogger(OtherName, <<"console">>)]
           /\ spd_loggers' = spd_loggers \cup {[name |-> OtherName, id |-> g]}
    /\ last' = [NoCall EXCEPT !.op = "Register"]
    /\ UNCHANGED <<logger_, spd_default, console, disk, proc, thr, hist,
                   file_sink, rendered, now, temp>>

NextRegistry ==
    \/ RegisterOther
    \/ \E f \in PathArgs, l \in LevelArgs, x \in Fates : LoggerInit(f, l, x)
    \/ Shutdown
    \/ \E s \in LogSeverity, t \in Texts : Log(s, t)

SpecRegistry == Init /\ [][NextRegistry]_vars

TypeOK ==
    /\ logger_ \in {nullptr} \cup Slots
    /\ logger_ # nullptr => heap[logger_].alive
    /\ spd_default # nullptr => heap[spd_default].alive
    /\ \A e \in spd_loggers : heap[e.id].alive
    /\ \E g \in Slots : ~heap[g].alive
    /\ proc \in {"running", "aborted", "terminated", "crashed"}

(***************************************************************************)
(* What the claims speak of.                                               *)
(***************************************************************************)
Active == logger_ # nullptr

\* what the file sink of logger g was given: what is on disk and what it buffers
HasFileSink(h, g) == \E i \in 1..Len(h[g].sinks) : h[g].sinks[i] = "file"

\* no sink was given anything and nothing moved to disk
NothingWritten ==
    /\ console' = console
    /\ disk' = disk
    /\ \A g \in Slots : heap'[g].buf = heap[g].buf

\* every sink of logger g was given the line, once
WrittenToEverySink(g, line) ==
    /\ console' = console \o Chunks(line)
    /\ HasFileSink(heap, g) =>
           disk' \o heap'[g].buf = disk \o heap[g].buf \o Chunks(line)

\* the chunks of a sequence that belong to records the facade formatted
RECURSIVE NumRecords(_)
NumRecords(chunks) ==
    IF chunks = <<>> THEN 0
    ELSE (IF Head(chunks).ln.level_char # "" THEN 1 ELSE 0) + NumRecords(Tail(chunks))

RECURSIVE NumBuffered(_, _)
NumBuffered(h, gs) ==
    IF gs = {} THEN 0
    ELSE LET g == CHOOSE x \in gs : TRUE
         IN NumRecords(h[g].buf) + NumBuffered(h, gs \ {g})

\* the level a severity stands for
LevelOfSeverity(s) ==
    CASE s = LOG_LEVEL_INFO -> "info"
      [] s = LOG_LEVEL_WARNING -> "warn"
      [] s = LOG_LEVEL_ERROR -> "err"
      [] s = LOG_LEVEL_FATAL -> "critical"

\* the severity a level stands for
SeverityOf(l) ==
    CASE l = "info" -> LOG_LEVEL_INFO
      [] l = "warn" -> LOG_LEVEL_WARNING
      [] l = "err" -> LOG_LEVEL_ERROR
      [] l = "critical" -> LOG_LEVEL_FATAL

(***************************************************************************)
(* C1: finalizing a FATAL record always ends the process: after a log call *)
(* of severity FATAL the process is aborted, whatever the registry state,  *)
(* the sinks, the minimum level and the text.                              *)
(***************************************************************************)
C1_FatalTerminates ==
    (last.op = "Log" /\ last.sev = LOG_LEVEL_FATAL) => proc = "aborted"

\* a FATAL record with no text, finalized after Shutdown
C1_Witness ==
    /\ last.op = "Log" /\ last.sev = LOG_LEVEL_FATAL /\ last.text = <<>>
    /\ ~Active /\ spd_default = nullptr
    /\ proc = "aborted"

(***************************************************************************)
(* C2: when a FATAL record is finalized while a logger is Active, every    *)
(* sink is flushed before the process ends: nothing the file sink was      *)
(* given is left in its buffer, and the fatal line, when the record has    *)
(* text, is the last line on disk.                                         *)
(***************************************************************************)
C2_FatalFlushesEverySink ==
    (last.op = "Log" /\ last.sev = LOG_LEVEL_FATAL /\ Active) =>
        /\ heap[logger_].buf = <<>>
        /\ (last.text # <<>> /\ HasFileSink(heap, logger_)) =>
               /\ Len(disk) >= 2
               /\ SubSeq(disk, Len(disk) - 1, Len(disk))
                      = Chunks(FormattedMsg(LOG_LEVEL_FATAL, 0, last.text))

(***************************************************************************)
(* C3: while the registry is Uninitialized a log call that is not FATAL    *)
(* writes nothing, raises nothing, leaves the registry Uninitialized and   *)
(* the process running; nothing is kept of the record, and an Init adds no *)
(* record to the console or to the log file.                               *)
(***************************************************************************)
C3_UninitializedAbsorbs ==
    [][ /\ (last'.op = "Log" /\ last'.sev # LOG_LEVEL_FATAL /\ ~Active) =>
               /\ UNCHANGED <<logger_, heap, spd_loggers, spd_default, console, disk>>
               /\ proc' = "running"
               /\ ~last'.threw
        /\ last'.op = "Init" =>
               /\ NumRecords(console') = NumRecords(console)
               /\ NumRecords(disk') + NumBuffered(heap', Slots)
                      = NumRecords(disk) + NumBuffered(heap, Slots)
      ]_vars

\* a WARNING record with text, logged after Shutdown
C3_Witness ==
    /\ last.op = "Log" /\ last.sev = LOG_LEVEL_WARNING /\ last.text # <<>>
    /\ ~Active /\ spd_default = nullptr
    /\ proc = "running"

(***************************************************************************)
(* C4: the registry is Active exactly when the most recent lifecycle call  *)
(* was Init: Init called on an Uninitialized registry leaves it Active and *)
(* the process running, Shutdown leaves it Uninitialized, no other call    *)
(* changes it; and a record with text that the active logger admits is     *)
(* written to every sink of that logger, the one the latest Init created.  *)
(***************************************************************************)
C4_Lifecycle ==
    [][ /\ (last'.op = "Init" /\ ~Active) => (logger_' # nullptr /\ proc' = "running")
        /\ last'.op = "Shutdown" => logger_' = nullptr
        /\ last'.op \notin {"Init", "Shutdown"} => logger_' = logger_
        /\ (/\ last'.op = "Log" /\ last'.text # <<>> /\ Active
            /\ Rank(heap[logger_].level) <= Rank(LevelOfSeverity(last'.sev))) =>
               WrittenToEverySink(logger_, FormattedMsg(last'.sev, 0, last'.text))
      ]_vars

(***************************************************************************)
(* C5: Init called while a logger is Active raises nothing and replaces    *)
(* the active logger as a whole: after it the facade's logger is a live    *)
(* logger, registered, and the process default.                            *)
(***************************************************************************)
C5_InitReplacesAtomically ==
    [][ (last'.op = "Init" /\ Active) =>
            /\ ~last'.threw
            /\ proc' = "running"
            /\ logger_' # nullptr
            /\ spd_default' = logger_'
            /\ [name |-> "snow_logger", id |-> logger_'] \in spd_loggers'
      ]_vars

(***************************************************************************)
(* C6: after SetLevel(L) on an Active logger, and while that logger stays  *)
(* the active one with no further SetLevel, a record with text of severity *)
(* s is written to every sink when s >= L and to no sink when s < L.       *)
(***************************************************************************)
C6_SetLevelAdmission ==
    [][ (/\ last'.op = "Log" /\ last'.text # <<>>
         /\ Active /\ hist.setL \in SeverityLevels) =>
            IF last'.sev >= SeverityOf(hist.setL)
            THEN WrittenToEverySink(logger_, FormattedMsg(last'.sev, 0, last'.text))
            ELSE NothingWritten
      ]_vars

\* after SetLevel(ERROR) a WARNING record with text left the sinks empty
C6_Witness ==
    /\ last.op = "Log" /\ last.sev = LOG_LEVEL_WARNING /\ last.text # <<>>
    /\ Active /\ hist.setL = "err"
    /\ HasFileSink(heap, logger_)
    /\ console = <<>> /\ disk = <<>>

(***************************************************************************)
(* C7: a record with no text produces no output on any sink, whatever its  *)
(* severity and the registry state.                                        *)
(***************************************************************************)
C7_EmptyRecordSilent ==
    [][ (last'.op = "Log" /\ last'.text = <<>>) => NothingWritten ]_vars

\* an INFO record with no text, finalized on a logger that admits INFO
C7_Witness ==
    /\ last.op = "Log" /\ last.text = <<>> /\ last.sev = LOG_LEVEL_INFO
    /\ Active /\ heap[logger_].level = "info" /\ HasFileSink(heap, logger_)

(***************************************************************************)
(* C8: a conditional logging form does nothing when its predicate is false *)
(* and does what the unconditional form of its severity does when the      *)
(* predicate is true.                                                      *)
(***************************************************************************)
C8_ConditionalForm ==
    [][ \A c \in BOOLEAN, s \in LogSeverity, t \in Texts \ {<<>>} :
            LogIf(c, s, t) =>
                IF c
                THEN /\ Becomes(Finalize(World, logger_, s, 0, t))
                     /\ proc' = AfterFinalize(s)
                ELSE /\ NothingWritten
                     /\ proc' = proc
      ]_vars

\* the lines of a sequence of chunks, when every text is followed at once by
\* its own end of line
RECURSIVE WholeLines(_)
WholeLines(chunks) ==
    IF chunks = <<>> THEN TRUE
    ELSE /\ Len(chunks) >= 2
         /\ chunks[1].part = "text"
         /\ chunks[2].part = "eol"
         /\ chunks[2].ln = chunks[1].ln
         /\ WholeLines(SubSeq(chunks, 3, Len(chunks)))

\* how many lines of thread t a sequence of chunks ends
NumLinesOf(chunks, t) ==
    Cardinality({i \in 1..Len(chunks) :
                    chunks[i].part = "eol" /\ chunks[i].ln.thread = t})

\* what the file sink of the active logger was given
FileGiven == disk \o heap[logger_].buf

(***************************************************************************)
(* C9: with an Active logger and no lifecycle call after a worker thread   *)
(* began logging, once NThreads threads have each logged RecordsPerThread  *)
(* INFO records with text, the console and the log file each hold exactly  *)
(* NThreads * RecordsPerThread lines, RecordsPerThread of each thread, and *)
(* every line is whole: its text is followed at once by its own end of     *)
(* line, whatever the interleaving.                                        *)
(***************************************************************************)
C9_WholeLines ==
    (Active /\ ~hist.lifeRace /\ WorkersJoined) =>
        /\ Len(console) = 2 * NThreads * RecordsPerThread
        /\ Len(FileGiven) = 2 * NThreads * RecordsPerThread
        /\ WholeLines(console)
        /\ WholeLines(FileGiven)
        /\ \A t \in Workers :
               /\ NumLinesOf(console, t) = RecordsPerThread
               /\ NumLinesOf(FileGiven, t) = RecordsPerThread

\* all threads are done and the two sinks took the lines in different orders
C9_Witness ==
    /\ Active /\ ~hist.lifeRace /\ WorkersJoined
    /\ HasFileSink(heap, logger_)
    /\ console[1].ln.thread = 2
    /\ FileGiven[1].ln.thread = 1

(***************************************************************************)
(* C10: a log call that runs while another thread calls Shutdown or Init   *)
(* never uses a logger reference that was cleared or released between its  *)
(* test of the reference and its write.                                    *)
(***************************************************************************)
C10_NoStaleLogger == ~hist.stale

\* in a sequence of chunks the lines of each thread are in the order of its calls
InCallOrder(chunks) ==
    \A i, j \in 1..Len(chunks) :
        (/\ i < j
         /\ chunks[i].part = "eol" /\ chunks[j].part = "eol"
         /\ chunks[i].ln.thread = chunks[j].ln.thread) =>
            chunks[i].ln.msg[1] < chunks[j].ln.msg[1]

(***************************************************************************)
(* C11: within each sink (the console, the log file on disk, and what the  *)
(* file sink of the active logger was given) the lines of one thread are   *)
(* in the order in which the thread made its log calls, whatever the       *)
(* interleaving with the log calls of the other threads.                   *)
(***************************************************************************)
C11_ThreadOrder ==
    /\ InCallOrder(console)
    /\ InCallOrder(disk)
    /\ Active => InCallOrder(FileGiven)

\* thread 1 has logged two records and a line of thread 2 lies between them
C11_Witness ==
    /\ Active /\ HasFileSink(heap, logger_)
    /\ thr[1].k >= 2
    /\ \E i, j, m \in 1..Len(console) :
           /\ i < m /\ m < j
           /\ console[i].ln.thread = 1 /\ console[j].ln.thread = 1
           /\ console[m].ln.thread = 2
    /\ NumLinesOf(FileGiven, 1) >= 2

\* the active logger admits a record of severity s
Admits(s) == Rank(LevelOfSeverity(s)) >= Rank(heap[logger_].level)

(***************************************************************************)
(* C12: with the flush threshold WARNING that Init sets, a log call of     *)
(* severity WARNING, ERROR or FATAL with text that the active logger       *)
(* admits leaves the file sink of the active logger flushed: its buffer is *)
(* empty and all it was given, the new line last, is on disk, also when    *)
(* the process then aborts.  An admitted INFO record moves nothing to      *)
(* disk: its line is added to the buffer.                                  *)
(***************************************************************************)
C12_FlushAtWarning ==
    [][ (/\ last'.op = "Log" /\ last'.text # <<>>
         /\ Active /\ Admits(last'.sev) /\ HasFileSink(heap, logger_)) =>
            LET line == Chunks(FormattedMsg(last'.sev, 0, last'.text))
            IN  IF last'.sev >= LOG_LEVEL_WARNING
                THEN /\ heap'[logger_].buf = <<>>
                     /\ disk' = disk \o heap[logger_].buf \o line
                ELSE /\ heap'[logger_].buf = heap[logger_].buf \o line
                     /\ disk' = disk
      ]_vars

\* an admitted ERROR record with text returned and its line is on disk
C12_Witness ==
    /\ last.op = "Log" /\ last.sev = LOG_LEVEL_ERROR /\ last.text # <<>>
    /\ Active /\ HasFileSink(heap, logger_) /\ Admits(LOG_LEVEL_ERROR)
    /\ proc = "running"
    /\ heap[logger_].buf = <<>>
    /\ disk = Chunks(FormattedMsg(LOG_LEVEL_ERROR, 0, last.text))

(***************************************************************************)
(* C13: Init with a log file that cannot be opened, called on an           *)
(* Uninitialized registry (before the first Init or after a Shutdown),     *)
(* neither throws nor ends the process: it writes its warning to the       *)
(* console and leaves an Active logger whose only sink is the console.     *)
(***************************************************************************)
C13_OpenFailureFallsBack ==
    [][ \A f \in PathArgs, l \in LevelArgs, x \in Fates :
            (f # "" /\ ~CanOpen(f) /\ ~Active /\ LoggerInit(f, l, x)) =>
                /\ proc' = "running"
                /\ ~last'.threw
                /\ logger_' # nullptr
                /\ heap'[logger_'].sinks = <<"console">>
                /\ console' = console \o Chunks(WarningLine)
      ]_vars

(***************************************************************************)
(* C14: Shutdown on an Active registry makes every line written so far     *)
(* durable (what the active logger's file sink buffered goes to disk next, *)
(* and no buffer holds a line afterwards), destroys the logger, writes     *)
(* nothing to the console and leaves the registry Uninitialized; Shutdown  *)
(* on an Uninitialized registry changes nothing, so a second Shutdown in a *)
(* row changes nothing.                                                    *)
(***************************************************************************)
C14_Shutdown ==
    [][ last'.op = "Shutdown" =>
            IF Active
            THEN /\ logger_' = nullptr
                 /\ ~heap'[logger_].alive
                 /\ Len(disk') >= Len(disk) + Len(heap[logger_].buf)
                 /\ SubSeq(disk', 1, Len(disk) + Len(heap[logger_].buf))
                        = disk \o heap[logger_].buf
                 /\ NumBuffered(heap', Slots) = 0
                 /\ NumRecords(disk') = NumRecords(disk) + NumBuffered(heap, Slots)
                 /\ console' = console
                 /\ proc' = "running"
            ELSE UNCHANGED <<logger_, heap, spd_loggers, spd_default, console, disk, proc>>
      ]_vars

\* Shutdown has run on a registry that is Uninitialized and an INFO line is on disk
C14_Witness ==
    /\ last.op = "Shutdown" /\ ~Active
    /\ spd_default = nullptr
    /\ Len(disk) = 2 /\ disk[1].ln.level_char = "I"
    /\ NumBuffered(heap, Slots) = 0

\* a rotating file sink was given a line in this step
FileSinkWritten == file_sink.open /\ file_sink'.n = file_sink.n + 1

\* every line that has a byte in file f is in f from its first byte to its last
WholeFile(f) ==
    \A i \in 1..Len(f) :
        /\ f[i].pos = 1 \/ (i > 1 /\ f[i - 1].id = f[i].id /\ f[i - 1].pos = f[i].pos - 1)
        /\ f[i].pos = f[i].of \/ (i < Len(f) /\ f[i + 1].id = f[i].id)

(***************************************************************************)
(* C15: a rotating file sink with max_files never retains more than        *)
(* max_files + 1 files, the open file and its numbered backups; and a      *)
(* rotation removes only what would be numbered beyond max_files: each of  *)
(* the first max_files files is kept as it was, one place further.         *)
(***************************************************************************)
C15_RetainedFiles ==
    [][ /\ file_sink'.open => Len(file_sink'.files) <= file_sink'.max_files + 1
        /\ (FileSinkWritten /\ file_sink'.rotated) =>
               \A i \in 1..Len(file_sink.files) :
                   i <= file_sink.max_files =>
                       /\ Len(file_sink'.files) >= i + 1
                       /\ file_sink'.files[i + 1] = file_sink.files[i]
      ]_vars

\* the sink holds max_files + 1 files, two of them backups, after a rotation
\* that removed a backup
C15_Witness ==
    /\ file_sink.open /\ file_sink.max_files = 2
    /\ Len(file_sink.files) = 3
    /\ file_sink.rotated /\ file_sink.removed

(***************************************************************************)
(* C16: a write that would make the open file exceed max_size rotates      *)
(* first: the fresh file holds the pending line, whole, and nothing else,  *)
(* and the file rotated away is backup 1 with every line it held (when a   *)
(* backup is retained); any other write appends the line to the open file  *)
(* and rotates nothing; no file ever holds a part of a line.               *)
(***************************************************************************)
C16_RotateBeforeWrite ==
    [][ FileSinkWritten =>
            LET line == FileLine(file_sink'.n, file_sink'.len)
            IN  /\ IF Len(file_sink.files[1]) + file_sink'.len > file_sink.max_size
                   THEN /\ file_sink'.rotated
                        /\ file_sink'.files[1] = line
                        /\ file_sink.max_files >= 1 =>
                               file_sink'.files[2] = file_sink.files[1]
                   ELSE /\ ~file_sink'.rotated
                        /\ file_sink'.files =
                               [file_sink.files EXCEPT ![1] = @ \o line]
                /\ \A i \in 1..Len(file_sink'.files) : WholeFile(file_sink'.files[i])
      ]_vars

\* a line of two bytes went to a fresh file and the file rotated away, which
\* held a line, is backup 1
C16_Witness ==
    /\ file_sink.open /\ file_sink.rotated /\ file_sink.len = 2
    /\ Len(file_sink.files) >= 2
    /\ file_sink.files[2] # <<>>
    /\ file_sink.files[1] = FileLine(file_sink.n, 2)

(***************************************************************************)
(* C17: SetLevel and Flush called while the registry is Uninitialized      *)
(* raise nothing, create no logger, change no logger's level, write        *)
(* nothing and leave the registry Uninitialized.                           *)
(***************************************************************************)
C17_UninitializedNoOps ==
    [][ (last'.op \in {"SetLevel", "Flush"} /\ ~Active) =>
            /\ UNCHANGED <<logger_, heap, spd_loggers, spd_default, console, disk, proc>>
            /\ ~last'.threw
      ]_vars

\* SetLevel was called before the first Init, with spdlog's own default
\* logger in place
C17_Witness ==
    /\ last.op = "SetLevel" /\ ~Active
    /\ spd_default = BuiltinLogger /\ heap[BuiltinLogger].alive
    /\ heap[BuiltinLogger].level = "info"

DigitChars == {"0", "1", "2", "3", "4", "5", "6", "7", "8", "9"}

IsDigits(q) == q # <<>> /\ \A i \in 1..Len(q) : q[i] \in DigitChars

\* a file name: not empty, no '/' and no '\'
IsFileName(q) == q # <<>> /\ \A i \in 1..Len(q) : q[i] \notin {"/", "\\"}

\* the level character of a severity
LevelCharOf(s) ==
    CASE s = LOG_LEVEL_INFO -> "I"
      [] s = LOG_LEVEL_WARNING -> "W"
      [] s = LOG_LEVEL_ERROR -> "E"
      [] s = LOG_LEVEL_FATAL -> "F"

\* the fixed layout: level character, YYYYMMDD, space, HH:MM:SS, dot, six
\* digits, space, thread number, space, file name, colon, line number, "] ",
\* message
HasLayout(out, s, msg) ==
    /\ Len(out) >= 26
    /\ out[1] = LevelCharOf(s)
    /\ IsDigits(SubSeq(out, 2, 9)) /\ out[10] = " "
    /\ IsDigits(SubSeq(out, 11, 12)) /\ out[13] = ":"
    /\ IsDigits(SubSeq(out, 14, 15)) /\ out[16] = ":"
    /\ IsDigits(SubSeq(out, 17, 18)) /\ out[19] = "."
    /\ IsDigits(SubSeq(out, 20, 25)) /\ out[26] = " "
    /\ \E i, j, k \in 27..Len(out) :
           /\ i < j /\ j < k /\ k < Len(out)
           /\ IsDigits(SubSeq(out, 27, i - 1)) /\ out[i] = " "
           /\ IsFileName(SubSeq(out, i + 1, j - 1)) /\ out[j] = ":"
           /\ IsDigits(SubSeq(out, j + 1, k - 1)) /\ out[k] = "]"
           /\ out[k + 1] = " "
           /\ SubSeq(out, k + 2, Len(out)) = msg

\* the path names a file: it is not empty and does not end with a separator
NamesAFile(file) == file # <<>> /\ file[Len(file)] \notin {"/", "\\"}

(***************************************************************************)
(* C18 as stated: for every severity, file path, line number and message   *)
(* the rendered line has the fixed layout, with a non-empty file name that *)
(* contains no '/' and no '\'.                                             *)
(***************************************************************************)
C18_LayoutEveryPath ==
    rendered # NoLine => HasLayout(rendered.out, rendered.severity, rendered.text)

(***************************************************************************)
(* C18, amended: for every severity, line number and message, and every    *)
(* file path that is not empty and does not end with '/' or '\', the       *)
(* rendered line has the fixed layout, with a non-empty file name that     *)
(* contains no '/' and no '\'.                                             *)
(***************************************************************************)
C18_Layout ==
    (rendered # NoLine /\ NamesAFile(rendered.file)) =>
        HasLayout(rendered.out, rendered.severity, rendered.text)

\* a FATAL record from a path with both separators was rendered
C18_Witness ==
    /\ rendered.severity = LOG_LEVEL_FATAL
    /\ rendered.file = <<"d", "/", "e", "\\", "a">>
    /\ rendered.text = <<"x", ":", " ", "]">>
    /\ rendered.out[1] = "F"
    /\ HasLayout(rendered.out, rendered.severity, rendered.text)

\* the part of a path after its last '/' or '\'; the path itself when it has
\* no separator or when that part is empty
FileFieldOf(file) ==
    LET seps == {i \in 1..Len(file) : file[i] \in {"/", "\\"}}
        part == IF seps = {} THEN file
                ELSE SubSeq(file, (CHOOSE i \in seps : \A j \in seps : j <= i) + 1,
                            Len(file))
    IN  IF part = <<>> THEN file ELSE part

(***************************************************************************)
(* C19: the file field of the rendered line is the part of the path after  *)
(* its last '/' or '\', and the path unmodified when it holds no separator *)
(* or when that part is empty.                                             *)
(***************************************************************************)
C19_FileField ==
    rendered # NoLine => rendered.filename = FileFieldOf(rendered.file)

(***************************************************************************)
(* C20: after an Init that succeeds (it returns normally and its log file, *)
(* when it names one, opens) the sink list of the active logger is         *)
(* <<console>> for an empty path and <<console, file>> otherwise; and a    *)
(* log call with text that the active logger admits writes its line to     *)
(* every sink of the list exactly once, the console being the first sink.  *)
(***************************************************************************)
C20_SinkList ==
    [][ /\ \A f \in PathArgs, l \in LevelArgs, x \in Fates :
               (/\ last'.op = "Init" /\ ~last'.threw /\ proc' = "running"
                /\ f = "" \/ CanOpen(f)
                /\ LoggerInit(f, l, x)) =>
                   /\ logger_' # nullptr
                   /\ heap'[logger_'].sinks =
                          IF f = "" THEN <<"console">> ELSE <<"console", "file">>
        /\ (/\ last'.op = "Log" /\ last'.text # <<>>
            /\ Active /\ Admits(last'.sev)) =>
               /\ heap[logger_].sinks[1] = "console"
               /\ WrittenToEverySink(logger_, FormattedMsg(last'.sev, 0, last'.text))
               /\ \A g \in Slots \ {logger_} : heap'[g].buf = heap[g].buf
      ]_vars

\* an INFO record with text is once on the console and once in the file sink
C20_Witness ==
    /\ last.op = "Log" /\ last.sev = LOG_LEVEL_INFO /\ last.text # <<>>
    /\ Active /\ heap[logger_].sinks = <<"console", "file">>
    /\ console = Chunks(FormattedMsg(LOG_LEVEL_INFO, 0, last.text))
    /\ heap[logger_].buf = console
    /\ disk = <<>>

(***************************************************************************)
(* C21: when Init is called while a logger is active, what the old         *)
(* logger's file sink still buffers is flushed: after the call every line  *)
(* the old logger was given before it, unflushed INFO lines included, is   *)
(* on disk.                                                                *)
(***************************************************************************)
C21_InitFlushesOld ==
    [][ (last'.op = "Init" /\ logger_ # nullptr) =>
            LET durable == disk \o heap[logger_].buf
            IN  /\ Len(disk') >= Len(durable)
                /\ SubSeq(disk', 1, Len(durable)) = durable
      ]_vars

\* logger g was created by an Init and is no longer the facade's logger: a
\* later Init put another logger in logger_
Replaced(g) == heap[g].alive /\ heap[g].name = "snow_logger" /\ g # logger_

(***************************************************************************)
(* C22: lines go to the sinks of the logger the most recent Init created   *)
(* only.  A logger that was replaced receives nothing afterwards: no call  *)
(* changes what its file sink holds, and an Init made while it exists      *)
(* gives its console sink nothing and its file nothing (the file gets at   *)
(* most what the logger that this Init destroys had buffered).             *)
(***************************************************************************)
C22_OnlyNewestLogger ==
    [][ \A g \in Slots :
            Replaced(g) =>
                /\ heap'[g].alive => heap'[g].buf = heap[g].buf
                /\ last'.op = "Init" =>
                       /\ console' = console
                       /\ disk' \in {disk, disk \o heap[logger_].buf}
      ]_vars

(***************************************************************************)
(* C23: a record below the minimum severity of the active logger is        *)
(* dropped before anything is formatted: when its statement ends, no clock *)
(* reading was taken and no line was built for it.                         *)
(***************************************************************************)
C23_DroppedBeforeFormatting ==
    [][ (/\ temp.pc = "built" /\ temp'.pc = "done"
         /\ Active /\ ~Admits(temp.severity_)) =>
            ~temp'.formatted /\ temp'.out = <<>>
      ]_vars

(***************************************************************************)
(* C24: the timestamp of a record is the clock reading at the end of its   *)
(* statement: it is not earlier than the last append of the statement,     *)
(* whatever the clock read when the temporary was constructed, and it is   *)
(* the microsecond field of the line.                                      *)
(***************************************************************************)
C24_TimestampAtFinalization ==
    (temp.pc = "done" /\ temp.formatted) =>
        /\ temp.created <= temp.appended /\ temp.appended <= temp.time
        /\ temp.out = formatted_msg(temp.severity_, StatementFile, StatementLine,
                                    temp.message_, StatementTm, temp.time, 0)

\* a line whose timestamp is later than the construction of its temporary
\* and later than its first append
C24_Witness ==
    /\ temp.pc = "done" /\ temp.formatted
    /\ temp.created < temp.appended /\ temp.appended < temp.time
    /\ Len(temp.message_) = 2

(***************************************************************************)
(* C25: the minimum severity of the active logger is the argument of the   *)
(* most recent of Init and SetLevel.  After an Init the logger in use has  *)
(* the level of that Init, whatever SetLevel calls were made before it,    *)
(* while a logger was active or not; after a SetLevel on an active logger  *)
(* it has the level of that SetLevel until the next Init; and a record     *)
(* with text is written or dropped by that level.                          *)
(***************************************************************************)
C25_LevelOfMostRecentCall ==
    [][ /\ \A l \in LevelArgs, x \in Fates :
               (/\ last'.op = "Init" /\ proc' = "running"
                /\ LoggerInit("app.log", l, x)) =>
                   logger_' # nullptr /\ heap'[logger_'].level = l
        /\ (logger_' # nullptr /\ hist'.setL # "") =>
               heap'[logger_'].level = hist'.setL
        /\ (logger_ # nullptr /\ logger_' = logger_ /\ last'.op # "SetLevel") =>
               heap'[logger_].level = heap[logger_].level
        /\ (last'.op = "Log" /\ last'.text # <<>> /\ Active) =>
               IF Admits(last'.sev)
               THEN WrittenToEverySink(logger_, FormattedMsg(last'.sev, 0, last'.text))
               ELSE NothingWritten
      ]_vars

\* an INFO record is written by the logger of an Init at INFO that followed a
\* logger at ERROR
C25_Witness ==
    /\ last.op = "Log" /\ last.sev = LOG_LEVEL_INFO /\ last.text # <<>>
    /\ Active /\ heap[logger_].level = "info" /\ hist.setL = ""
    /\ \E g \in Slots : Replaced(g) /\ heap[g].level = "err"
    /\ console = Chunks(FormattedMsg(LOG_LEVEL_INFO, 0, last.text))

(***************************************************************************)
(* C26: Init and Shutdown change the facade's logger only: a logger that   *)
(* other code registered under another name is registered and alive after  *)
(* the call as it was before it.                                           *)
(***************************************************************************)
C26_OtherLoggersKept ==
    [][ last'.op \in {"Init", "Shutdown"} =>
            \A e \in spd_loggers :
                e.name = OtherName =>
                    /\ e \in spd_loggers'
                    /\ heap'[e.id] = heap[e.id]
      ]_vars

=============================================================================
